---- MODULE Spec2Model ----
(***************************************************************************)
(* A state-machine model of application/src/main.cpp: the GLFW/GLEW start- *)
(* up, the resource builder, the render loop and the teardown of main(),   *)
(* together with the diagnostic helpers GlErrorToString, PrintOpenGLErrors,*)
(* the CheckedGLCall / CheckedGLResult macros and PrintShaderInfoLog.      *)
(*                                                                         *)
(* The program counter pc is the source line of the statement main() is    *)
(* at; ph is the phase inside a checked call: "before" (the >>BEFORE<<     *)
(* drain), "call" (the call itself) and "after" (the drain after it).      *)
(*                                                                         *)
(* The OpenGL context is the environment.  It is modelled after the        *)
(* OpenGL 3.3 core specification: a command that generates an error is     *)
(* ignored apart from recording the error, a value-returning command then  *)
(* returns zero (glGetAttribLocation: -1), and glGetError returns and      *)
(* clears one recorded error in unspecified order.  The outcomes the       *)
(* context decides, and the program does not, are drawn with \E: whether   *)
(* glfwInit, glfwCreateWindow and glewInit succeed, whether an object can  *)
(* be created, whether a shader compiles, how long its info log is,        *)
(* whether the program links, and whether a close request has arrived.     *)
(***************************************************************************)
EXTENDS Integers, Sequences, FiniteSets, TLC

VARIABLES pc, ph, build, loc, frame, glfw, gl, pending, out, hist, exit, frames

vars == <<pc, ph, build, loc, frame, glfw, gl, pending, out, hist, exit, frames>>

(***************************************************************************)
(* Bounds of the model.                                                    *)
(***************************************************************************)
\* Iterations of the render loop that are explored.
MaxFrames == 2
\* Flag-code pairs the context can hold at once (the GL leaves the number
\* to the implementation; an error raised when all are set is dropped).
MaxPending == 2
\* Longest info log (GL_INFO_LOG_LENGTH, the terminating NUL included).
MaxInfoLog == 3
\* Longest error queue PrintOpenGLErrors is started on in SpecDrain.
MaxQueue == 3

(***************************************************************************)
(* Constants of the GL and of GLEW that the source names.                  *)
(***************************************************************************)
GL_NO_ERROR == 0
GL_INVALID_ENUM == 1280
GL_INVALID_VALUE == 1281
GL_INVALID_OPERATION == 1282
GL_INVALID_FRAMEBUFFER_OPERATION == 1286
GL_OUT_OF_MEMORY == 1285
GLEW_OK == 0

\* The six codes of GlErrorToString's switch that can be pending (GL_NO_ERROR
\* never is), and codes the switch does not list: GL_STACK_OVERFLOW,
\* GL_STACK_UNDERFLOW (compatibility contexts) and GL_CONTEXT_LOST.
StandardErrors == {GL_INVALID_ENUM, GL_INVALID_VALUE, GL_INVALID_OPERATION,
                   GL_INVALID_FRAMEBUFFER_OPERATION, GL_OUT_OF_MEMORY}
OtherErrors == {1283, 1287}
ErrorCodes == StandardErrors \cup OtherErrors

(***************************************************************************)
(* GlErrorToString, and the std::hex formatting of the code.               *)
(***************************************************************************)
\* The switch with the string of GL_INVALID_ENUM pasted into the next case.
GlErrorToStringPasted(e) ==
    CASE e = GL_NO_ERROR -> "GL_NO_ERROR"
      [] e = GL_INVALID_ENUM -> "GL_INVALID_ENUM"
      [] e = GL_INVALID_VALUE -> "GL_INVALID_ENUM"
      [] e = GL_INVALID_OPERATION -> "GL_INVALID_OPERATION"
      [] e = GL_INVALID_FRAMEBUFFER_OPERATION -> "GL_INVALID_FRAMEBUFFER_OPERATION"
      [] e = GL_OUT_OF_MEMORY -> "GL_OUT_OF_MEMORY"
      [] OTHER -> "Unknown GL error"

GlErrorToString(e) ==
    CASE e = GL_NO_ERROR -> "GL_NO_ERROR"
      [] e = GL_INVALID_ENUM -> "GL_INVALID_ENUM"
      [] e = GL_INVALID_VALUE -> "GL_INVALID_VALUE"
      [] e = GL_INVALID_OPERATION -> "GL_INVALID_OPERATION"
      [] e = GL_INVALID_FRAMEBUFFER_OPERATION -> "GL_INVALID_FRAMEBUFFER_OPERATION"
      [] e = GL_OUT_OF_MEMORY -> "GL_OUT_OF_MEMORY"
      [] OTHER -> "Unknown GL error"

HexDigit == <<"0", "1", "2", "3", "4", "5", "6", "7",
              "8", "9", "a", "b", "c", "d", "e", "f">>

RECURSIVE Hex(_)
Hex(n) == IF n < 16 THEN HexDigit[n + 1]
                    ELSE Hex(n \div 16) \o HexDigit[(n % 16) + 1]

(***************************************************************************)
(* The statements of main(), by source line.                               *)
(***************************************************************************)
\* Lines whose GL call is wrapped in CheckedGLCall.
CallLines == {88, 89, 91, 92, 93, 94, 96, 97, 98, 102, 103, 104, 108, 109,
              110, 114, 115, 116, 117, 118, 121, 122, 123, 124, 127, 128,
              133, 134, 135, 136, 137, 138}
\* Lines whose GL call is wrapped in CheckedGLResult.
ResultLines == {101, 107, 113, 120}
\* The local each of them initialises with the value of the call.
ResultVar(l) == CASE l = 101 -> "vs"
                  [] l = 107 -> "fs"
                  [] l = 113 -> "prog"
                  [] l = 120 -> "posLoc"
\* The GL calls of PrintShaderInfoLog, which are not wrapped.
HelperLines == {39, 43}
\* glGetError is called on line 21 only.
GetErrorLine == 21

\* #x: the text of the wrapped expression, which the macros pass as Function.
Text(l) ==
    CASE l = 88 -> "glGenVertexArrays(1, &VAO)"
      [] l = 89 -> "glBindVertexArray(VAO)"
      [] l = 91 -> "glGenBuffers(1, &VBO)"
      [] l = 92 -> "glBindBuffer(GL_ARRAY_BUFFER, VBO)"
      [] l = 93 -> "glBufferData(GL_ARRAY_BUFFER, sizeof(Vertices), Vertices, GL_STATIC_DRAW)"
      [] l = 94 -> "glBindBuffer(GL_ARRAY_BUFFER, 0)"
      [] l = 96 -> "glGenBuffers(1, &EBO)"
      [] l = 97 -> "glBindBuffer(GL_ELEMENT_ARRAY_BUFFER, EBO)"
      [] l = 98 -> "glBufferData(GL_ELEMENT_ARRAY_BUFFER, sizeof(Elements), Elements, GL_STATIC_DRAW)"
      [] l = 101 -> "glCreateShader(GL_VERTEX_SHADER)"
      [] l = 102 -> "glShaderSource(vs, 1, &VertexShaderSource, nullptr)"
      [] l = 103 -> "glCompileShader(vs)"
      [] l = 104 -> "glGetShaderiv(vs, GL_COMPILE_STATUS, &compiled)"
      [] l = 107 -> "glCreateShader(GL_FRAGMENT_SHADER)"
      [] l = 108 -> "glShaderSource(fs, 1, &FragmentShaderSource, nullptr)"
      [] l = 109 -> "glCompileShader(fs)"
      [] l = 110 -> "glGetShaderiv(fs, GL_COMPILE_STATUS, &compiled)"
      [] l = 113 -> "glCreateProgram()"
      [] l = 114 -> "glAttachShader(prog, vs)"
      [] l = 115 -> "glAttachShader(prog, fs)"
      [] l = 116 -> "glBindFragDataLocation(prog, 0, \"outColor\")"
      [] l = 117 -> "glLinkProgram(prog)"
      [] l = 118 -> "glUseProgram(prog)"
      [] l = 120 -> "glGetAttribLocation(prog, \"position\")"
      [] l = 121 -> "glEnableVertexAttribArray(posLoc)"
      [] l = 122 -> "glBindBuffer(GL_ARRAY_BUFFER, VBO)"
      [] l = 123 -> "glVertexAttribPointer(posLoc, 2, GL_FLOAT, GL_FALSE, 0, (void*)0)"
      [] l = 124 -> "glBindBuffer(GL_ARRAY_BUFFER, 0)"
      [] l = 127 -> "glClear(GL_COLOR_BUFFER_BIT)"
      [] l = 128 -> "glDrawElements(GL_TRIANGLES, 3, GL_UNSIGNED_INT, 0)"
      [] l = 133 -> "glDeleteProgram(prog)"
      [] l = 134 -> "glDeleteShader(fs)"
      [] l = 135 -> "glDeleteShader(vs)"
      [] l = 136 -> "glDeleteBuffers(1, &EBO)"
      [] l = 137 -> "glDeleteBuffers(1, &VBO)"
      [] l = 138 -> "glDeleteVertexArrays(1, &VAO)"

\* The order with lines 134 and 135 exchanged: the vertex shader deleted
\* before the fragment shader.
StmtsShadersSwapped ==
    <<88, 89, 91, 92, 93, 94, 96, 97, 98, 101, 102, 103, 104, 105,
      107, 108, 109, 110, 111, 113, 114, 115, 116, 117, 118, 120, 121,
      122, 123, 124, 126, 127, 128, 129, 130, 133, 135, 134, 136, 137,
      138, 140, 141>>

\* The statements of main() that follow one another, in program order; the
\* branches (lines 50, 55, 61, 67, 105, 111, 126, 130) name their targets.
Stmts == <<88, 89, 91, 92, 93, 94, 96, 97, 98, 101, 102, 103, 104, 105,
           107, 108, 109, 110, 111, 113, 114, 115, 116, 117, 118, 120, 121,
           122, 123, 124, 126, 127, 128, 129, 130, 133, 134, 135, 136, 137,
           138, 140, 141>>

Succ(l) == Stmts[(CHOOSE i \in 1..(Len(Stmts) - 1) : Stmts[i] = l) + 1]

\* CheckedGLCall (line 29 with _DEBUG, line 32 without): the drain before.
HasBefore(l) == build.DEBUG /\ l \in CallLines
\* CheckedGLCall and CheckedGLResult (lines 29-30, 32-33): the drain after.
HasAfter(l) == build.DEBUG /\ l \in CallLines \cup ResultLines

\* Control reaches the statement on line l.
Goto(l) == /\ pc' = l
           /\ ph' = IF HasBefore(l) THEN "before" ELSE "call"

\* Control leaves the call on line l.
AfterCall(l) == IF HasAfter(l) THEN pc' = l /\ ph' = "after"
                               ELSE Goto(Succ(l))

At(l) == pc = l /\ ph = "call"

\* main() returns code.
Return(code) == /\ exit' = <<code>>
                /\ pc' = 0
                /\ ph' = "call"

(***************************************************************************)
(* The GL objects of the program.  A handle is 0 or the name the context   *)
(* gave the object; the program reads handles only to pass them on.        *)
(***************************************************************************)
Res == {"VAO", "VBO", "EBO", "vs", "fs", "prog"}
Shaders == {"vs", "fs"}

Name(r) == CASE r = "VAO" -> 1
             [] r = "VBO" -> 1
             [] r = "EBO" -> 2
             [] r = "vs" -> 1
             [] r = "fs" -> 2
             [] r = "prog" -> 3

\* Line 85 and line 86; the vertices in units of 0.5.
Vertices == <<0, 1, 1, -1, -1, -1>>
Elements == <<0, 1, 2>>

\* A recorded error: its code, and the source line of the call that raised
\* it (history, which the context does not keep).
Raise(q, code, l) == IF Len(q) < MaxPending
                       THEN Append(q, [code |-> code, by |-> l])
                       ELSE q

Remove(q, i) == SubSeq(q, 1, i - 1) \o SubSeq(q, i + 1, Len(q))

\* An entry of the call history: the API function called, the source line
\* of the call and the value it returned (0 for a void function).
Called(fn, l, ret) == [fn |-> fn, line |-> l, ret |-> ret]

InitGL == [obj |-> [r \in Res |-> "none"],
           created |-> [r \in Res |-> 0],
           boundVAO |-> 0,
           arrayBuffer |-> 0,
           elementBuffer |-> 0,
           data |-> [n \in {Name("VBO"), Name("EBO")} |-> <<>>],
           source |-> {},
           compileStatus |-> [s \in Shaders |-> FALSE],
           infoLogLen |-> [s \in Shaders |-> 0],
           attached |-> {},
           fragData |-> FALSE,
           linked |-> FALSE,
           currentProgram |-> 0,
           attribEnabled |-> {},
           attribPointer |-> {}]

InitLoc == [window |-> 0, err |-> GLEW_OK, VAO |-> 0, VBO |-> 0, EBO |-> 0,
            compiled |-> 0, vs |-> 0, fs |-> 0, prog |-> 0, posLoc |-> 0]

InitGLFW == [initialized |-> FALSE, hints |-> {}, window |-> FALSE,
             current |-> FALSE, loaded |-> FALSE, shouldClose |-> FALSE,
             terminated |-> 0]

Init == /\ pc = 50
        /\ ph = "call"
        /\ build \in [DEBUG : BOOLEAN, APPLE : BOOLEAN]
        /\ loc = InitLoc
        /\ frame = [Shader |-> 0, len |-> 0, ret |-> 0]
        /\ glfw = InitGLFW
        /\ gl = InitGL
        /\ pending = <<>>
        /\ out = <<>>
        /\ hist = <<>>
        /\ exit = <<>>
        /\ frames = 0

(***************************************************************************)
(* Start-up: lines 50-71.                                                  *)
(***************************************************************************)
\* glfwTerminate: destroys every window and context, releases the library.
Terminate(g) == [g EXCEPT !.initialized = FALSE, !.window = FALSE,
                          !.current = FALSE, !.terminated = @ + 1]

\* Line 50: if (!glfwInit()) return -1;
GlfwInit ==
    /\ At(50)
    /\ \E ok \in BOOLEAN :
         /\ hist' = Append(hist, Called("glfwInit", 50, IF ok THEN 1 ELSE 0))
         /\ IF ok THEN /\ glfw' = [glfw EXCEPT !.initialized = TRUE]
                       /\ Goto(53)
                       /\ UNCHANGED exit
                  ELSE /\ Return(-1)
                       /\ UNCHANGED glfw
    /\ UNCHANGED <<build, loc, frame, gl, pending, out, frames>>

\* Lines 53-55 and, under __APPLE__, line 57: glfwWindowHint(hint, value).
WindowHint(l, hint, value, next) ==
    /\ At(l)
    /\ hist' = Append(hist, Called("glfwWindowHint", l, 0))
    /\ glfw' = [glfw EXCEPT !.hints = @ \cup {<<hint, value>>}]
    /\ Goto(next)
    /\ UNCHANGED <<build, loc, frame, gl, pending, out, exit, frames>>

HintVersionMajor == WindowHint(53, "GLFW_CONTEXT_VERSION_MAJOR", 3, 54)
HintVersionMinor == WindowHint(54, "GLFW_CONTEXT_VERSION_MINOR", 3, 55)
HintCoreProfile ==
    WindowHint(55, "GLFW_OPENGL_PROFILE", "GLFW_OPENGL_CORE_PROFILE",
               IF build.APPLE THEN 57 ELSE 60)
HintForwardCompat == WindowHint(57, "GLFW_OPENGL_FORWARD_COMPAT", "GL_TRUE", 60)

\* Line 60: window = glfwCreateWindow(640, 480, "Hello World", nullptr, nullptr);
GlfwCreateWindow ==
    /\ At(60)
    /\ \E ok \in BOOLEAN :
         /\ hist' = Append(hist, Called("glfwCreateWindow", 60, IF ok THEN 1 ELSE 0))
         /\ loc' = [loc EXCEPT !.window = IF ok THEN 1 ELSE 0]
         /\ glfw' = [glfw EXCEPT !.window = ok]
    /\ Goto(61)
    /\ UNCHANGED <<build, frame, gl, pending, out, exit, frames>>

\* Line 61 without its glfwTerminate(): if (!window) return -1;
WindowCheckNoTerminate ==
    /\ At(61)
    /\ IF loc.window = 0
         THEN /\ Return(-1)
              /\ UNCHANGED <<hist, glfw>>
         ELSE /\ Goto(62)
              /\ UNCHANGED <<hist, glfw, exit>>
    /\ UNCHANGED <<build, loc, frame, gl, pending, out, frames>>

\* Line 61 followed by line 65: glfwMakeContextCurrent(window) left out.
WindowCheckSkipsContext ==
    /\ At(61)
    /\ IF loc.window = 0
         THEN /\ hist' = Append(hist, Called("glfwTerminate", 61, 0))
              /\ glfw' = Terminate(glfw)
              /\ Return(-1)
         ELSE /\ Goto(66)
              /\ UNCHANGED <<hist, glfw, exit>>
    /\ UNCHANGED <<build, loc, frame, gl, pending, out, frames>>

\* Line 61: if (!window) { glfwTerminate(); return -1; }
WindowCheck ==
    /\ At(61)
    /\ IF loc.window = 0
         THEN /\ hist' = Append(hist, Called("glfwTerminate", 61, 0))
              /\ glfw' = Terminate(glfw)
              /\ Return(-1)
         ELSE /\ Goto(62)
              /\ UNCHANGED <<hist, glfw, exit>>
    /\ UNCHANGED <<build, loc, frame, gl, pending, out, frames>>

\* Line 62: glfwMakeContextCurrent(window);
MakeContextCurrent ==
    /\ At(62)
    /\ hist' = Append(hist, Called("glfwMakeContextCurrent", 62, 0))
    /\ glfw' = [glfw EXCEPT !.current = TRUE]
    /\ Goto(66)
    /\ UNCHANGED <<build, loc, frame, gl, pending, out, exit, frames>>

\* Lines 65-66: glewExperimental = GL_TRUE; err = glewInit();
\* On a core-profile context glewInit may leave GL_INVALID_ENUM recorded
\* (its glGetString(GL_EXTENSIONS) query) although it returns GLEW_OK.
GlewInit ==
    /\ At(66)
    /\ \E e \in {GLEW_OK, 1} :
         /\ hist' = Append(hist, Called("glewInit", 66, e))
         /\ loc' = [loc EXCEPT !.err = e]
         /\ glfw' = [glfw EXCEPT !.loaded = (e = GLEW_OK)]
    /\ \E stale \in BOOLEAN :
         pending' = IF stale THEN Raise(pending, GL_INVALID_ENUM, 66) ELSE pending
    /\ Goto(67)
    /\ UNCHANGED <<build, frame, gl, out, exit, frames>>

\* Lines 67-71 with return 0 in place of return -1.
GlewCheckReturnsZero ==
    /\ At(67)
    /\ IF GLEW_OK # loc.err
         THEN /\ out' = Append(out, [stream |-> "cerr", text |-> "GLEW init error: ",
                                     err |-> loc.err])
              /\ hist' = Append(hist, Called("glfwTerminate", 69, 0))
              /\ glfw' = Terminate(glfw)
              /\ Return(0)
         ELSE /\ Goto(88)
              /\ UNCHANGED <<out, hist, glfw, exit>>
    /\ UNCHANGED <<build, loc, frame, gl, pending, frames>>

\* Lines 67-71: if (GLEW_OK != err) { std::cerr << ...; glfwTerminate(); return -1; }
GlewCheck ==
    /\ At(67)
    /\ IF GLEW_OK # loc.err
         THEN /\ out' = Append(out, [stream |-> "cerr", text |-> "GLEW init error: ",
                                     err |-> loc.err])
              /\ hist' = Append(hist, Called("glfwTerminate", 69, 0))
              /\ glfw' = Terminate(glfw)
              /\ Return(-1)
         ELSE /\ Goto(88)
              /\ UNCHANGED <<out, hist, glfw, exit>>
    /\ UNCHANGED <<build, loc, frame, gl, pending, frames>>

(***************************************************************************)
(* The diagnostic helpers: lines 19-46.                                    *)
(***************************************************************************)
\* The Function argument the macros build: ">>BEFORE<< " #x before the call,
\* #x after it (string-literal concatenation, kept as its two pieces).
Label(l, phase) == IF phase = "before" THEN <<">>BEFORE<< ", Text(l)>>
                                       ELSE <<Text(l)>>

\* Lines 22-24: one line on std::cerr.  raisedBy is history: the line of the
\* call that raised the error; the program does not print it.
ErrorLine(l, phase, e) ==
    [stream |-> "cerr", text |-> "OpenGL Error in ", file |-> "main.cpp",
     line |-> l, function |-> Label(l, phase),
     name |-> GlErrorToString(e.code), hex |-> "0x" \o Hex(e.code),
     raisedBy |-> e.by]

\* Lines 19-26, one iteration of the for loop of PrintOpenGLErrors as the
\* macros of line 29 and line 30 call it: glGetError returns and clears one
\* recorded error, which is printed, or GL_NO_ERROR, which ends the loop.
PrintOpenGLErrors ==
    /\ ph \in {"before", "after"}
    /\ IF pending = <<>>
         THEN /\ hist' = Append(hist, Called("glGetError", GetErrorLine, GL_NO_ERROR))
              /\ IF ph = "before" THEN pc' = pc /\ ph' = "call"
                                  ELSE Goto(Succ(pc))
              /\ UNCHANGED <<pending, out>>
         ELSE /\ \E i \in 1..Len(pending) :
                   /\ hist' = Append(hist, Called("glGetError", GetErrorLine,
                                                  pending[i].code))
                   /\ pending' = Remove(pending, i)
                   /\ out' = Append(out, ErrorLine(pc, ph, pending[i]))
              /\ UNCHANGED <<pc, ph>>
    /\ UNCHANGED <<build, loc, frame, glfw, gl, exit, frames>>

\* A GL call of main() on line l: the context state and the locals after
\* it, and the error it raises (GL_NO_ERROR: none).
GLCall(l, fn, g, lc, err) ==
    /\ At(l)
    /\ hist' = Append(hist, Called(fn, l, IF l \in ResultLines
                                              THEN lc[ResultVar(l)] ELSE 0))
    /\ gl' = g
    /\ loc' = lc
    /\ pending' = IF err = GL_NO_ERROR THEN pending ELSE Raise(pending, err, l)
    /\ AfterCall(l)
    /\ UNCHANGED <<build, frame, glfw, out, exit, frames>>

\* Lines 38-39: len = 0; glGetShaderiv(Shader, GL_INFO_LOG_LENGTH, &len);
\* then line 40: if (len > 1) ... else return.
InfoLogLength ==
    /\ At(39)
    /\ hist' = Append(hist, Called("glGetShaderiv", 39, 0))
    /\ LET known == {r \in Shaders : Name(r) = frame.Shader /\ gl.obj[r] = "live"}
       n == IF known # {} THEN gl.infoLogLen[CHOOSE r \in known : TRUE] ELSE 0
       IN /\ pending' = IF known = {} THEN Raise(pending, GL_INVALID_VALUE, 39)
                                      ELSE pending
          /\ frame' = [frame EXCEPT !.len = n]
          /\ IF n > 1 THEN pc' = 43 /\ ph' = "call"
                      ELSE Goto(frame.ret)
    /\ UNCHANGED <<build, loc, glfw, gl, out, exit, frames>>

\* Lines 41-44: glGetShaderInfoLog(Shader, len, &written, log.data());
\* std::cout << "Shader Info Log:\n" << log << "\n"; and the return.
InfoLogText ==
    /\ At(43)
    /\ hist' = Append(hist, Called("glGetShaderInfoLog", 43, 0))
    /\ out' = Append(out, [stream |-> "cout", text |-> "Shader Info Log:",
                           shader |-> frame.Shader, len |-> frame.len])
    /\ Goto(frame.ret)
    /\ UNCHANGED <<build, loc, frame, glfw, gl, pending, exit, frames>>

(***************************************************************************)
(* The resource builder: lines 88-124.                                     *)
(***************************************************************************)
\* The context creates the object of r and hands out its name.
Create(g, r) == [g EXCEPT !.obj[r] = "live", !.created[r] = @ + 1]

\* The live shader objects, and whether h names the live program object.
ShaderNamed(h) == {r \in Shaders : h # 0 /\ Name(r) = h /\ gl.obj[r] = "live"}
IsProgram(h) == h # 0 /\ h = Name("prog") /\ gl.obj["prog"] = "live"

\* The GLint location i is passed as a GLuint index, i mod 2^32, and an index
\* of GL_MAX_VERTEX_ATTRIBS (16) or more is refused: for a 32-bit i that is
\* i < 0 or i >= 16 (2^32 itself is beyond the integers of TLC).  An index
\* that is accepted is i itself.
Refused(i) == i < 0 \/ i >= 16

\* Line 88: GLuint VAO; glGenVertexArrays(1, &VAO);
GenVertexArrays ==
    GLCall(88, "glGenVertexArrays", Create(gl, "VAO"),
           [loc EXCEPT !.VAO = Name("VAO")], GL_NO_ERROR)

\* Line 89: glBindVertexArray(VAO);
BindVertexArray ==
    GLCall(89, "glBindVertexArray", [gl EXCEPT !.boundVAO = loc.VAO], loc,
           GL_NO_ERROR)

\* Lines 91 and 96: GLuint b; glGenBuffers(1, &b);
GenBuffers(l, r) ==
    GLCall(l, "glGenBuffers", Create(gl, r), [loc EXCEPT ![r] = Name(r)],
           GL_NO_ERROR)

GenVertexBuffer == GenBuffers(91, "VBO")
GenIndexBuffer == GenBuffers(96, "EBO")

\* Lines 92, 94, 122, 124: glBindBuffer(GL_ARRAY_BUFFER, b);
BindArrayBuffer(l, b) ==
    GLCall(l, "glBindBuffer", [gl EXCEPT !.arrayBuffer = b], loc, GL_NO_ERROR)

\* Line 124 left out in effect: the vertex buffer stays bound.
VertexBufferLeftBound == BindArrayBuffer(124, loc.VBO)

BindVertexBuffer == BindArrayBuffer(92, loc.VBO)
UnbindVertexBuffer == BindArrayBuffer(94, 0)
RebindVertexBuffer == BindArrayBuffer(122, loc.VBO)
UnbindVertexBufferAgain == BindArrayBuffer(124, 0)

\* Line 97: glBindBuffer(GL_ELEMENT_ARRAY_BUFFER, EBO); the binding is part
\* of the state of the bound vertex array object.
BindIndexBuffer ==
    IF gl.boundVAO = 0
      THEN GLCall(97, "glBindBuffer", gl, loc, GL_INVALID_OPERATION)
      ELSE GLCall(97, "glBindBuffer", [gl EXCEPT !.elementBuffer = loc.EBO],
                  loc, GL_NO_ERROR)

\* Lines 93 and 98: glBufferData(target, sizeof(a), a, GL_STATIC_DRAW);
BufferData(l, bound, a) ==
    IF bound = 0
      THEN GLCall(l, "glBufferData", gl, loc, GL_INVALID_OPERATION)
      ELSE GLCall(l, "glBufferData", [gl EXCEPT !.data[bound] = a], loc,
                  GL_NO_ERROR)

VertexBufferData == BufferData(93, gl.arrayBuffer, Vertices)
IndexBufferData == BufferData(98, gl.elementBuffer, Elements)

\* Lines 101 and 107: s = glCreateShader(type); 0 when the object cannot be
\* created.
CreateShader(l, r) ==
    \E ok \in BOOLEAN :
      IF ok THEN GLCall(l, "glCreateShader", Create(gl, r),
                        [loc EXCEPT ![r] = Name(r)], GL_NO_ERROR)
            ELSE GLCall(l, "glCreateShader", gl, [loc EXCEPT ![r] = 0],
                        GL_OUT_OF_MEMORY)

CreateVertexShader == CreateShader(101, "vs")
CreateFragmentShader == CreateShader(107, "fs")

\* Lines 102 and 108: glShaderSource(s, 1, &source, nullptr);
ShaderSource(l, r) ==
    IF ShaderNamed(loc[r]) = {}
      THEN GLCall(l, "glShaderSource", gl, loc, GL_INVALID_VALUE)
      ELSE GLCall(l, "glShaderSource",
                  [gl EXCEPT !.source = @ \cup ShaderNamed(loc[r])], loc,
                  GL_NO_ERROR)

VertexShaderSource == ShaderSource(102, "vs")
FragmentShaderSource == ShaderSource(108, "fs")

\* Lines 103 and 109: glCompileShader(s); the compiler of the context decides
\* the status and writes an info log of some length.
CompileShader(l, r) ==
    IF ShaderNamed(loc[r]) = {}
      THEN GLCall(l, "glCompileShader", gl, loc, GL_INVALID_VALUE)
      ELSE \E status \in BOOLEAN, n \in 0..MaxInfoLog :
             GLCall(l, "glCompileShader",
                    [gl EXCEPT !.compileStatus[r] = (status /\ r \in gl.source),
                               !.infoLogLen[r] = n],
                    loc, GL_NO_ERROR)

CompileVertexShader == CompileShader(103, "vs")
CompileFragmentShader == CompileShader(109, "fs")

\* Lines 104 and 110: glGetShaderiv(s, GL_COMPILE_STATUS, &compiled); on an
\* error nothing is written to compiled.
GetCompileStatus(l, r) ==
    IF ShaderNamed(loc[r]) = {}
      THEN GLCall(l, "glGetShaderiv", gl, loc, GL_INVALID_VALUE)
      ELSE GLCall(l, "glGetShaderiv", gl,
                  [loc EXCEPT !.compiled = IF gl.compileStatus[r] THEN 1 ELSE 0],
                  GL_NO_ERROR)

GetVertexCompileStatus == GetCompileStatus(104, "vs")
GetFragmentCompileStatus == GetCompileStatus(110, "fs")

\* Lines 105 and 111:
\* if (!compiled) { std::cerr << "... shader failed\n"; PrintShaderInfoLog(s); }
IfNotCompiled(l, r, message, next) ==
    /\ At(l)
    /\ IF loc.compiled = 0
         THEN /\ out' = Append(out, [stream |-> "cerr", text |-> message])
              /\ frame' = [Shader |-> loc[r], len |-> 0, ret |-> next]
              /\ pc' = 39
              /\ ph' = "call"
         ELSE /\ Goto(next)
              /\ UNCHANGED <<out, frame>>
    /\ UNCHANGED <<build, loc, glfw, gl, pending, hist, exit, frames>>

IfVertexNotCompiled == IfNotCompiled(105, "vs", "Vertex shader failed", 107)
IfFragmentNotCompiled == IfNotCompiled(111, "fs", "Fragment shader failed", 113)

\* Line 113: prog = glCreateProgram(); 0 when the object cannot be created.
CreateProgram ==
    \E ok \in BOOLEAN :
      IF ok THEN GLCall(113, "glCreateProgram", Create(gl, "prog"),
                        [loc EXCEPT !.prog = Name("prog")], GL_NO_ERROR)
            ELSE GLCall(113, "glCreateProgram", gl, [loc EXCEPT !.prog = 0],
                        GL_OUT_OF_MEMORY)

\* Lines 114 and 115: glAttachShader(prog, s);
AttachShader(l, r) ==
    IF IsProgram(loc.prog) /\ ShaderNamed(loc[r]) # {}
      THEN GLCall(l, "glAttachShader",
                  [gl EXCEPT !.attached = @ \cup ShaderNamed(loc[r])], loc,
                  GL_NO_ERROR)
      ELSE GLCall(l, "glAttachShader", gl, loc, GL_INVALID_VALUE)

AttachVertexShader == AttachShader(114, "vs")
AttachFragmentShader == AttachShader(115, "fs")

\* Line 116: glBindFragDataLocation(prog, 0, "outColor");
BindFragDataLocation ==
    IF IsProgram(loc.prog)
      THEN GLCall(116, "glBindFragDataLocation", [gl EXCEPT !.fragData = TRUE],
                  loc, GL_NO_ERROR)
      ELSE GLCall(116, "glBindFragDataLocation", gl, loc, GL_INVALID_OPERATION)

\* Line 117: glLinkProgram(prog); a link failure is a status, not an error,
\* and the program does not read the status.
LinkProgram ==
    IF IsProgram(loc.prog)
      THEN \E ok \in BOOLEAN :
             GLCall(117, "glLinkProgram",
                    [gl EXCEPT !.linked =
                       ok /\ \A s \in gl.attached : gl.compileStatus[s]],
                    loc, GL_NO_ERROR)
      ELSE GLCall(117, "glLinkProgram", gl, loc, GL_INVALID_VALUE)

\* Line 118: glUseProgram(prog); 0 is accepted and leaves no program current,
\* a program that did not link is refused.
UseProgram ==
    IF loc.prog = 0 \/ (IsProgram(loc.prog) /\ gl.linked)
      THEN GLCall(118, "glUseProgram", [gl EXCEPT !.currentProgram = loc.prog],
                  loc, GL_NO_ERROR)
      ELSE GLCall(118, "glUseProgram", gl, loc, GL_INVALID_OPERATION)

\* Line 120: posLoc = glGetAttribLocation(prog, "position"); -1 on an error
\* and when position is no active attribute of the linked program.
GetAttribLocation ==
    IF IsProgram(loc.prog) /\ gl.linked
      THEN GLCall(120, "glGetAttribLocation", gl,
                  [loc EXCEPT !.posLoc = IF "vs" \in gl.attached THEN 0 ELSE -1],
                  GL_NO_ERROR)
      ELSE GLCall(120, "glGetAttribLocation", gl, [loc EXCEPT !.posLoc = -1],
                  GL_INVALID_OPERATION)

\* Line 121: glEnableVertexAttribArray(posLoc);
EnableVertexAttribArray ==
    IF Refused(loc.posLoc)
      THEN GLCall(121, "glEnableVertexAttribArray", gl, loc, GL_INVALID_VALUE)
      ELSE GLCall(121, "glEnableVertexAttribArray",
                  [gl EXCEPT !.attribEnabled = @ \cup {loc.posLoc}], loc,
                  GL_NO_ERROR)

\* Line 123: glVertexAttribPointer(posLoc, 2, GL_FLOAT, GL_FALSE, 0, (void*)0);
\* the vertex array object records the buffer bound to GL_ARRAY_BUFFER.
VertexAttribPointer ==
    IF Refused(loc.posLoc)
      THEN GLCall(123, "glVertexAttribPointer", gl, loc, GL_INVALID_VALUE)
      ELSE GLCall(123, "glVertexAttribPointer",
                  [gl EXCEPT !.attribPointer =
                     {p \in @ : p.index # loc.posLoc} \cup
                     {[index |-> loc.posLoc, size |-> 2,
                       type |-> "GL_FLOAT", buffer |-> gl.arrayBuffer]}],
                  loc, GL_NO_ERROR)

(***************************************************************************)
(* The render loop: lines 126-131.                                         *)
(***************************************************************************)
\* Line 126 with the resource builder inside the loop: every iteration
\* starts again at line 88.
WhileRebuilds ==
    /\ At(126)
    /\ hist' = Append(hist, Called("glfwWindowShouldClose", 126,
                                   IF glfw.shouldClose THEN 1 ELSE 0))
    /\ IF glfw.shouldClose
         THEN /\ Goto(133)
              /\ UNCHANGED frames
         ELSE /\ frames < MaxFrames
              /\ frames' = frames + 1
              /\ Goto(88)
    /\ UNCHANGED <<build, loc, frame, glfw, gl, pending, out, exit>>

\* Line 126 with the condition inverted: while (glfwWindowShouldClose(window))
WhileShouldClose ==
    /\ At(126)
    /\ hist' = Append(hist, Called("glfwWindowShouldClose", 126,
                                   IF glfw.shouldClose THEN 1 ELSE 0))
    /\ IF ~glfw.shouldClose
         THEN /\ Goto(133)
              /\ UNCHANGED frames
         ELSE /\ frames < MaxFrames
              /\ frames' = frames + 1
              /\ Goto(127)
    /\ UNCHANGED <<build, loc, frame, glfw, gl, pending, out, exit>>

\* Line 126: while (!glfwWindowShouldClose(window))
WhileNotShouldClose ==
    /\ At(126)
    /\ hist' = Append(hist, Called("glfwWindowShouldClose", 126,
                                   IF glfw.shouldClose THEN 1 ELSE 0))
    /\ IF glfw.shouldClose
         THEN /\ Goto(133)
              /\ UNCHANGED frames
         ELSE /\ frames < MaxFrames
              /\ frames' = frames + 1
              /\ Goto(127)
    /\ UNCHANGED <<build, loc, frame, glfw, gl, pending, out, exit>>

\* Line 127: glClear(GL_COLOR_BUFFER_BIT);
Clear == GLCall(127, "glClear", gl, loc, GL_NO_ERROR)

\* Line 128: glDrawElements(GL_TRIANGLES, 3, GL_UNSIGNED_INT, 0); a core
\* profile refuses to draw without a bound vertex array object.
DrawElements ==
    GLCall(128, "glDrawElements", gl, loc,
           IF gl.boundVAO = 0 THEN GL_INVALID_OPERATION ELSE GL_NO_ERROR)

\* Line 129: glfwSwapBuffers(window);
SwapBuffers ==
    /\ At(129)
    /\ hist' = Append(hist, Called("glfwSwapBuffers", 129, 0))
    /\ Goto(130)
    /\ UNCHANGED <<build, loc, frame, glfw, gl, pending, out, exit, frames>>

\* Line 130: glfwPollEvents(); a close request of the user that has arrived
\* sets the close flag of the window.
PollEvents ==
    /\ At(130)
    /\ hist' = Append(hist, Called("glfwPollEvents", 130, 0))
    /\ \E request \in BOOLEAN :
         glfw' = [glfw EXCEPT !.shouldClose = @ \/ request]
    /\ Goto(126)
    /\ UNCHANGED <<build, loc, frame, gl, pending, out, exit, frames>>

(***************************************************************************)
(* Teardown: lines 133-141.                                                *)
(***************************************************************************)
\* Line 133: glDeleteProgram(prog); 0 is silently ignored.
DeleteProgram ==
    IF loc.prog = 0
      THEN GLCall(133, "glDeleteProgram", gl, loc, GL_NO_ERROR)
      ELSE IF IsProgram(loc.prog)
        THEN GLCall(133, "glDeleteProgram", [gl EXCEPT !.obj["prog"] = "deleted"],
                    loc, GL_NO_ERROR)
        ELSE GLCall(133, "glDeleteProgram", gl, loc, GL_INVALID_VALUE)

\* Lines 134 and 135: glDeleteShader(s); 0 is silently ignored.
DeleteShader(l, r) ==
    IF loc[r] = 0
      THEN GLCall(l, "glDeleteShader", gl, loc, GL_NO_ERROR)
      ELSE IF ShaderNamed(loc[r]) # {}
        THEN GLCall(l, "glDeleteShader", [gl EXCEPT !.obj[r] = "deleted"], loc,
                    GL_NO_ERROR)
        ELSE GLCall(l, "glDeleteShader", gl, loc, GL_INVALID_VALUE)

DeleteFragmentShader == DeleteShader(134, "fs")
DeleteVertexShader == DeleteShader(135, "vs")

\* Lines 136 and 137: glDeleteBuffers(1, &b); a binding of the deleted
\* buffer in the current context reverts to 0, unused names are ignored.
DeleteBuffers(l, r) ==
    GLCall(l, "glDeleteBuffers",
           IF gl.obj[r] = "live" /\ loc[r] = Name(r)
             THEN [gl EXCEPT !.obj[r] = "deleted",
                             !.arrayBuffer = IF @ = loc[r] THEN 0 ELSE @,
                             !.elementBuffer = IF @ = loc[r] THEN 0 ELSE @]
             ELSE gl,
           loc, GL_NO_ERROR)

DeleteIndexBuffer == DeleteBuffers(136, "EBO")
DeleteVertexBuffer == DeleteBuffers(137, "VBO")

\* Line 138: glDeleteVertexArrays(1, &VAO); the binding reverts to 0.
DeleteVertexArrays ==
    GLCall(138, "glDeleteVertexArrays",
           IF gl.obj["VAO"] = "live" /\ loc.VAO = Name("VAO")
             THEN [gl EXCEPT !.obj["VAO"] = "deleted",
                             !.boundVAO = IF @ = loc.VAO THEN 0 ELSE @]
             ELSE gl,
           loc, GL_NO_ERROR)

\* Line 140: glfwTerminate();
GlfwTerminate ==
    /\ At(140)
    /\ hist' = Append(hist, Called("glfwTerminate", 140, 0))
    /\ glfw' = Terminate(glfw)
    /\ Goto(141)
    /\ UNCHANGED <<build, loc, frame, gl, pending, out, exit, frames>>

\* Line 141: return 0;
ReturnZero ==
    /\ At(141)
    /\ Return(0)
    /\ UNCHANGED <<build, loc, frame, glfw, gl, pending, out, hist, frames>>

(***************************************************************************)
(* The program.                                                            *)
(***************************************************************************)
Next ==
    \/ GlfwInit
    \/ HintVersionMajor
    \/ HintVersionMinor
    \/ HintCoreProfile
    \/ HintForwardCompat
    \/ GlfwCreateWindow
    \/ WindowCheck
    \/ MakeContextCurrent
    \/ GlewInit
    \/ GlewCheck
    \/ PrintOpenGLErrors
    \/ InfoLogLength
    \/ InfoLogText
    \/ GenVertexArrays
    \/ BindVertexArray
    \/ GenVertexBuffer
    \/ BindVertexBuffer
    \/ VertexBufferData
    \/ UnbindVertexBuffer
    \/ GenIndexBuffer
    \/ BindIndexBuffer
    \/ IndexBufferData
    \/ CreateVertexShader
    \/ VertexShaderSource
    \/ CompileVertexShader
    \/ GetVertexCompileStatus
    \/ IfVertexNotCompiled
    \/ CreateFragmentShader
    \/ FragmentShaderSource
    \/ CompileFragmentShader
    \/ GetFragmentCompileStatus
    \/ IfFragmentNotCompiled
    \/ CreateProgram
    \/ AttachVertexShader
    \/ AttachFragmentShader
    \/ BindFragDataLocation
    \/ LinkProgram
    \/ UseProgram
    \/ GetAttribLocation
    \/ EnableVertexAttribArray
    \/ RebindVertexBuffer
    \/ VertexAttribPointer
    \/ UnbindVertexBufferAgain
    \/ WhileNotShouldClose
    \/ Clear
    \/ DrawElements
    \/ SwapBuffers
    \/ PollEvents
    \/ DeleteProgram
    \/ DeleteFragmentShader
    \/ DeleteVertexShader
    \/ DeleteIndexBuffer
    \/ DeleteVertexBuffer
    \/ DeleteVertexArrays
    \/ GlfwTerminate
    \/ ReturnZero

Spec == Init /\ [][Next]_vars

(***************************************************************************)
(* PrintOpenGLErrors on its own: the drains of line 127, before and after  *)
(* glClear in a diagnostics build, started on every error queue of up to   *)
(* MaxQueue recorded errors.                                               *)
(***************************************************************************)
RECURSIVE Queues(_)
Queues(n) ==
    IF n = 0 THEN {<<>>}
             ELSE Queues(n - 1) \cup
                  {Append(q, [code |-> c, by |-> 127]) :
                     q \in {r \in Queues(n - 1) : Len(r) = n - 1}, c \in ErrorCodes}

InitDrain ==
    /\ pc = 127
    /\ ph \in {"before", "after"}
    /\ build = [DEBUG |-> TRUE, APPLE |-> FALSE]
    /\ pending \in Queues(MaxQueue)
    /\ loc = [InitLoc EXCEPT !.window = 1]
    /\ frame = [Shader |-> 0, len |-> 0, ret |-> 0]
    /\ glfw = [InitGLFW EXCEPT !.initialized = TRUE, !.window = TRUE,
                               !.current = TRUE, !.loaded = TRUE]
    /\ gl = InitGL
    /\ out = <<>>
    /\ hist = <<>>
    /\ exit = <<>>
    /\ frames = 1

DrainStep == pc = 127 /\ PrintOpenGLErrors

\* The for loop of line 21 is not interrupted: it runs until it ends.
SpecDrain == InitDrain /\ [][DrainStep]_vars /\ WF_vars(DrainStep)

(***************************************************************************)
(* The call history read as a trace.                                       *)
(***************************************************************************)
WindowingFunctions == {"glfwInit", "glfwWindowHint", "glfwCreateWindow",
                       "glfwMakeContextCurrent", "glfwTerminate",
                       "glfwWindowShouldClose", "glfwSwapBuffers",
                       "glfwPollEvents", "glewInit"}

\* A call of the graphics API proper (glGetError included).
IsGL(e) == e.fn \notin WindowingFunctions

\* The positions of the calls of fn in the history.
Idx(fn) == {i \in DOMAIN hist : hist[i].fn = fn}

InitFailed == \E i \in Idx("glfwInit") : hist[i].ret = 0
WindowFailed == \E i \in Idx("glfwCreateWindow") : hist[i].ret = 0
LoaderFailed == \E i \in Idx("glewInit") : hist[i].ret # GLEW_OK
LoopExited == \E i \in Idx("glfwWindowShouldClose") : hist[i].ret = 1

\* The GL calls of the resource builder.
BuilderLines == {l \in CallLines \cup ResultLines : 88 <= l /\ l <= 124}

(***************************************************************************)
(* C1.  Once main() has returned, the exit code is -1 exactly when         *)
(* glfwInit, glfwCreateWindow or glewInit failed, and it is 0 otherwise,   *)
(* which happens only after the render loop saw the close request; no      *)
(* other code is returned.                                                 *)
(***************************************************************************)
ExitCodeContract ==
    exit # <<>> =>
      /\ exit \in {<<-1>>, <<0>>}
      /\ (InitFailed \/ WindowFailed \/ LoaderFailed) => exit = <<-1>>
      /\ ~(InitFailed \/ WindowFailed \/ LoaderFailed) =>
           exit = <<0>> /\ LoopExited

ExitAfterWindowFailure == exit = <<-1>> /\ WindowFailed

(***************************************************************************)
(* C2.  A run that returned -1 made no graphics call, created no GL        *)
(* object and called nothing but the start-up functions; when glfwInit     *)
(* itself failed glfwTerminate was not called, and otherwise it was called *)
(* exactly once, as the last call before the return.                       *)
(***************************************************************************)
EarlyFailureTeardown ==
    exit = <<-1>> =>
      /\ \A i \in DOMAIN hist :
           /\ ~IsGL(hist[i])
           /\ hist[i].fn \in {"glfwInit", "glfwWindowHint", "glfwCreateWindow",
                              "glfwMakeContextCurrent", "glewInit",
                              "glfwTerminate"}
      /\ gl = InitGL
      /\ Cardinality(Idx("glfwTerminate")) = IF InitFailed THEN 0 ELSE 1
      /\ glfw.terminated = Cardinality(Idx("glfwTerminate"))
      /\ ~InitFailed => hist[Len(hist)].fn = "glfwTerminate"

ExitAfterLoaderFailure ==
    exit = <<-1>> /\ LoaderFailed /\ glfw.terminated = 1

(***************************************************************************)
(* C3.  Every graphics call in the history (glGetError and the calls of    *)
(* PrintShaderInfoLog included) comes after glfwMakeContextCurrent and     *)
(* after a glewInit that returned GLEW_OK, and every glDrawElements comes  *)
(* after every GL call of the resource builder (lines 88-124).             *)
(***************************************************************************)
GraphicsCallsOrdered ==
    /\ \/ \A i \in DOMAIN hist : ~IsGL(hist[i])
       \/ \E j \in DOMAIN hist :
            /\ hist[j].fn = "glfwMakeContextCurrent"
            /\ \E k \in DOMAIN hist :
                 /\ hist[k].fn = "glewInit" /\ hist[k].ret = GLEW_OK
                 /\ \A i \in DOMAIN hist : IsGL(hist[i]) => j < i /\ k < i
    /\ \A i \in Idx("glDrawElements") :
         BuilderLines \subseteq {hist[j].line : j \in 1..(i - 1)}

DrawIssuedWithDiagnostics ==
    /\ build.DEBUG
    /\ Idx("glDrawElements") # {}
    /\ Idx("glGetShaderiv") # {}
    /\ hist[Len(hist)].fn = "glGetError"

(***************************************************************************)
(* The resources a GL call works on: the handles it is passed and, for the *)
(* calls that take none, the objects bound at that point of main().        *)
(***************************************************************************)
Uses(l) ==
    CASE l = 89 -> {"VAO"}
      [] l \in {92, 93, 122} -> {"VBO"}
      [] l \in {97, 98} -> {"EBO"}
      [] l \in {102, 103, 104} -> {"vs"}
      [] l \in {108, 109, 110} -> {"fs"}
      [] l = 114 -> {"prog", "vs"}
      [] l = 115 -> {"prog", "fs"}
      [] l \in {116, 117, 118, 120} -> {"prog"}
      [] l = 121 -> {"VAO"}
      [] l = 123 -> {"VAO", "VBO"}
      [] l = 128 -> {"VAO", "VBO", "EBO", "prog"}
      [] l \in HelperLines -> {r \in Shaders : Name(r) = frame.Shader}
      [] OTHER -> {}

CreateLine(r) == CASE r = "VAO" -> 88
                   [] r = "VBO" -> 91
                   [] r = "EBO" -> 96
                   [] r = "vs" -> 101
                   [] r = "fs" -> 107
                   [] r = "prog" -> 113

DeleteLine(r) == CASE r = "prog" -> 133
                   [] r = "fs" -> 134
                   [] r = "vs" -> 135
                   [] r = "EBO" -> 136
                   [] r = "VBO" -> 137
                   [] r = "VAO" -> 138

\* The lines of the calls made so far, each with the value returned.
Issued == {<<hist[i].line, hist[i].ret>> : i \in DOMAIN hist}

\* The creation call of r was made and handed out a name.
WasCreated(r, issued) ==
    \E c \in issued :
      /\ c[1] = CreateLine(r)
      /\ r \in {"vs", "fs", "prog"} => c[2] # 0

\* The delete call of r was made.
WasDeleted(r, issued) == \E c \in issued : c[1] = DeleteLine(r)

\* The call main() is about to make works on no deleted object.
NoUseAfterDelete ==
    ph = "call" => \A r \in Uses(pc) : gl.obj[r] # "deleted"

(***************************************************************************)
(* C4 as stated.  In every reachable state exactly one object of each of   *)
(* the six resource types exists, no resource is used after its deletion   *)
(* and none is created more than once.                                     *)
(***************************************************************************)
ExactlyOneOfEachAlways ==
    /\ \A r \in Res : gl.obj[r] = "live"
    /\ NoUseAfterDelete
    /\ \A r \in Res : gl.created[r] <= 1

(***************************************************************************)
(* C4 as amended.  At most one object of each resource type exists at any  *)
(* time: none before its creation call or when glCreateShader or           *)
(* glCreateProgram returned 0, exactly one from its creation until its     *)
(* delete call, none afterwards; no resource is used after its deletion;   *)
(* no resource is created more than once.                                  *)
(***************************************************************************)
ResourceLifecycle ==
    LET issued == Issued
    IN /\ \A r \in Res :
            /\ gl.created[r] <= 1
            /\ gl.obj[r] = "live" <=>
                 (WasCreated(r, issued) /\ ~WasDeleted(r, issued))
            /\ gl.obj[r] = "deleted" <=>
                 (WasCreated(r, issued) /\ WasDeleted(r, issued))
            /\ gl.created[r] = IF WasCreated(r, issued) THEN 1 ELSE 0
       /\ NoUseAfterDelete

TeardownHalfDone ==
    /\ At(136)
    /\ gl.obj["prog"] = "deleted" /\ gl.obj["fs"] = "deleted"
    /\ gl.obj["vs"] = "deleted"
    /\ gl.obj["EBO"] = "live" /\ gl.obj["VBO"] = "live" /\ gl.obj["VAO"] = "live"

(***************************************************************************)
(* C5.  The calls of main() other than glGetError, in order: every         *)
(* iteration of the render loop is glfwWindowShouldClose returning 0, then *)
(* glClear, glDrawElements, glfwSwapBuffers, glfwPollEvents and the next   *)
(* glfwWindowShouldClose; the loop is left, for line 133, exactly when     *)
(* glfwWindowShouldClose returns non-zero, which it does only when the     *)
(* close flag of the window is set, and no call of the loop follows that.  *)
(***************************************************************************)
NotGetError(e) == e.fn # "glGetError"

MainCalls == SelectSeq(hist, NotGetError)

LoopFunctions == {"glfwWindowShouldClose", "glClear", "glDrawElements",
                  "glfwSwapBuffers", "glfwPollEvents"}

\* In the loop, the function called after fn.
LoopSuccessor(fn) == CASE fn = "glClear" -> "glDrawElements"
                       [] fn = "glDrawElements" -> "glfwSwapBuffers"
                       [] fn = "glfwSwapBuffers" -> "glfwPollEvents"
                       [] fn = "glfwPollEvents" -> "glfwWindowShouldClose"

RenderLoopOrder ==
    LET m == MainCalls
        n == Len(m)
    IN /\ \A i \in 1..n :
            /\ m[i].fn \in LoopFunctions \ {"glfwWindowShouldClose"} =>
                 /\ i > 1
                 /\ m[i - 1].fn \in LoopFunctions
                 /\ m[i - 1].fn = "glfwWindowShouldClose" => m[i - 1].ret = 0
                 /\ m[i - 1].fn # "glfwWindowShouldClose" =>
                      LoopSuccessor(m[i - 1].fn) = m[i].fn
                 /\ i < n => m[i + 1].fn = LoopSuccessor(m[i].fn)
            /\ m[i].fn = "glfwWindowShouldClose" =>
                 /\ i > 1
                 /\ m[i - 1].fn = "glfwPollEvents" \/ m[i - 1].line = 124
                 /\ m[i].ret # 0 => glfw.shouldClose
                 /\ i < n => IF m[i].ret = 0 THEN m[i + 1].fn = "glClear"
                                             ELSE m[i + 1].line = 133
                 /\ m[i].ret # 0 => \A j \in (i + 1)..n : m[j].fn \notin LoopFunctions
       /\ pc \in 127..130 =>
            /\ n > 0
            /\ \E i \in 1..n : m[i].fn = "glfwWindowShouldClose" /\ m[i].ret = 0
            /\ ~LoopExited
       /\ (pc \in 133..141 \/ exit = <<0>>) => LoopExited /\ glfw.shouldClose
       /\ \A i \in 1..n : m[i].fn = "glDrawElements" =>
            Text(m[i].line) = "glDrawElements(GL_TRIANGLES, 3, GL_UNSIGNED_INT, 0)"

TwoFramesThenClosed == frames = 2 /\ pc = 133

(***************************************************************************)
(* C6.  After the glfwWindowShouldClose that ended the loop, main() calls, *)
(* in this order and nothing else, glDeleteProgram(prog),                  *)
(* glDeleteShader(fs), glDeleteShader(vs), glDeleteBuffers(1, &EBO),       *)
(* glDeleteBuffers(1, &VBO), glDeleteVertexArrays(1, &VAO) and then        *)
(* glfwTerminate, and returns 0 after all seven; no graphics call follows  *)
(* a glfwTerminate.                                                        *)
(***************************************************************************)
TeardownCalls ==
    <<"glDeleteProgram(prog)", "glDeleteShader(fs)", "glDeleteShader(vs)",
      "glDeleteBuffers(1, &EBO)", "glDeleteBuffers(1, &VBO)",
      "glDeleteVertexArrays(1, &VAO)", "glfwTerminate">>

CallText(e) == IF e.line \in CallLines \cup ResultLines THEN Text(e.line)
                                                        ELSE e.fn

TeardownOrder ==
    LET m == MainCalls
        n == Len(m)
    IN /\ \A k \in 1..n :
            (m[k].fn = "glfwWindowShouldClose" /\ m[k].ret # 0) =>
              /\ n - k <= Len(TeardownCalls)
              /\ \A i \in 1..(n - k) : CallText(m[k + i]) = TeardownCalls[i]
              /\ exit # <<>> => n - k = Len(TeardownCalls)
       /\ exit = <<0>> =>
            /\ LoopExited
            /\ \A r \in Res : gl.obj[r] # "live"
            /\ glfw.terminated = 1
       /\ \A i \in Idx("glfwTerminate") :
            \A j \in (i + 1)..Len(hist) : ~IsGL(hist[j])

NormalExit ==
    exit = <<0>> /\ \A r \in Res : gl.obj[r] = "deleted"

(***************************************************************************)
(* C7.  In a diagnostics build the error queue is empty whenever main() or *)
(* PrintShaderInfoLog is about to make a graphics call (it was drained     *)
(* immediately before), and every error line whose label does not start    *)
(* with ">>BEFORE<< " reports an error raised by the call on the line it   *)
(* names.                                                                  *)
(***************************************************************************)
DiagnosticsWrapEveryCall ==
    build.DEBUG =>
      /\ (ph = "call" /\ pc \in CallLines \cup ResultLines \cup HelperLines) =>
           pending = <<>>
      /\ \A i \in DOMAIN out :
           (out[i].text = "OpenGL Error in "
              /\ Head(out[i].function) # ">>BEFORE<< ") =>
             out[i].raisedBy = out[i].line

(***************************************************************************)
(* C9.  Once both shaders have been handled (line 113 and later), for each *)
(* shader: if it did not compile, its failure message was printed and its  *)
(* info log was printed exactly when the log is longer than 1; if it did   *)
(* compile, neither was printed; and main() has not returned anything but  *)
(* 0.                                                                      *)
(***************************************************************************)
FailureMessage(s) == IF s = "vs" THEN "Vertex shader failed"
                                 ELSE "Fragment shader failed"

Compiled(s) == gl.obj[s] # "none" /\ gl.compileStatus[s]

ShaderFailureReported ==
    (pc \in 113..141 \/ exit = <<0>>) =>
      /\ \A s \in Shaders :
           LET message == \E i \in DOMAIN out : out[i].text = FailureMessage(s)
               log == \E i \in DOMAIN out :
                        /\ out[i].text = "Shader Info Log:"
                        /\ out[i].shader = Name(s)
           IN IF Compiled(s)
                THEN ~message /\ ~log
                ELSE /\ message
                     /\ log <=> (gl.obj[s] # "none" /\ gl.infoLogLen[s] > 1)
      /\ exit \in {<<>>, <<0>>}

(***************************************************************************)
(* C10 as stated.  At every glDrawElements, and at every other step from   *)
(* the end of the resource builder to the start of the teardown, the VAO   *)
(* is bound, the index buffer is bound to GL_ELEMENT_ARRAY_BUFFER, the     *)
(* program is current, the position attribute array is enabled with the    *)
(* vertex buffer recorded for it, and GL_ARRAY_BUFFER is unbound.          *)
(***************************************************************************)
InRenderLoop == pc \in 126..130 \/ (pc = 133 /\ ph # "after")

BindingsEstablished ==
    InRenderLoop =>
      /\ gl.boundVAO = loc.VAO /\ loc.VAO # 0
      /\ gl.elementBuffer = loc.EBO /\ loc.EBO # 0
      /\ gl.currentProgram = loc.prog /\ loc.prog # 0
      /\ loc.posLoc >= 0 /\ gl.attribEnabled = {loc.posLoc}
      /\ \E p \in gl.attribPointer : p.index = loc.posLoc /\ p.buffer = loc.VBO
      /\ gl.arrayBuffer = 0

(***************************************************************************)
(* C10 as amended.  From the end of the resource builder to the start of   *)
(* the teardown, every glDrawElements included, the bindings are the ones  *)
(* the builder left: the VAO is bound, the index buffer is bound to        *)
(* GL_ELEMENT_ARRAY_BUFFER and GL_ARRAY_BUFFER is unbound; the program is  *)
(* current if it was created and linked, and no program is current         *)
(* otherwise; the position attribute array is enabled, with the vertex     *)
(* buffer recorded for it, if glGetAttribLocation found the attribute, and *)
(* no attribute array is enabled otherwise.                                *)
(***************************************************************************)
BindingsKept ==
    InRenderLoop =>
      /\ gl.boundVAO = loc.VAO /\ loc.VAO # 0
      /\ gl.elementBuffer = loc.EBO /\ loc.EBO # 0
      /\ gl.arrayBuffer = 0
      /\ gl.currentProgram = IF loc.prog # 0 /\ gl.linked THEN loc.prog ELSE 0
      /\ IF loc.posLoc >= 0
           THEN /\ gl.attribEnabled = {loc.posLoc}
                /\ gl.attribPointer = {[index |-> loc.posLoc, size |-> 2,
                                        type |-> "GL_FLOAT", buffer |-> loc.VBO]}
           ELSE gl.attribEnabled = {} /\ gl.attribPointer = {}

SecondDrawFullyBound ==
    /\ At(128)
    /\ frames = 2
    /\ gl.currentProgram = loc.prog /\ loc.prog # 0
    /\ gl.attribEnabled = {0}

(***************************************************************************)
(* C8.  PrintOpenGLErrors, started on any queue of recorded errors: every  *)
(* iteration that finds an error removes exactly that error from the queue *)
(* and appends exactly one line for it, with the label of the call, the    *)
(* name of the code from the table of six names ("Unknown GL error" for    *)
(* any other code) and the code in hexadecimal, and goes on; the iteration *)
(* that finds the queue empty writes nothing and returns; the queue is     *)
(* empty once it has returned; and it does return.                         *)
(***************************************************************************)
DrainReturned == ph = "call" \/ pc # 127

DocumentedName(c) ==
    CASE c = 1280 -> "GL_INVALID_ENUM"
      [] c = 1281 -> "GL_INVALID_VALUE"
      [] c = 1282 -> "GL_INVALID_OPERATION"
      [] c = 1286 -> "GL_INVALID_FRAMEBUFFER_OPERATION"
      [] c = 1285 -> "GL_OUT_OF_MEMORY"
      [] OTHER -> "Unknown GL error"

DocumentedHex(c) ==
    CASE c = 1280 -> "0x500"
      [] c = 1281 -> "0x501"
      [] c = 1282 -> "0x502"
      [] c = 1283 -> "0x503"
      [] c = 1285 -> "0x505"
      [] c = 1286 -> "0x506"
      [] c = 1287 -> "0x507"

DocumentedLine(e) ==
    [stream |-> "cerr", text |-> "OpenGL Error in ", file |-> "main.cpp",
     line |-> 127,
     function |-> IF ph = "before"
                    THEN <<">>BEFORE<< ", "glClear(GL_COLOR_BUFFER_BIT)">>
                    ELSE <<"glClear(GL_COLOR_BUFFER_BIT)">>,
     name |-> DocumentedName(e.code), hex |-> DocumentedHex(e.code),
     raisedBy |-> e.by]

DrainIteration ==
    IF pending = <<>>
      THEN out' = out /\ pending' = pending /\ DrainReturned'
      ELSE /\ \E i \in 1..Len(pending) :
                /\ pending' = Remove(pending, i)
                /\ out' = Append(out, DocumentedLine(pending[i]))
           /\ ~DrainReturned'

DrainContract ==
    /\ [][DrainIteration]_vars
    /\ [](DrainReturned => pending = <<>>)
    /\ <>DrainReturned

DrainedThreeErrors ==
    /\ DrainReturned
    /\ Len(out) = 3
    /\ \E i \in DOMAIN out : out[i].name = "Unknown GL error"
    /\ \E i \in DOMAIN out : out[i].name = "GL_INVALID_FRAMEBUFFER_OPERATION"

====
